---- MODULE Spec2Model ----
(***************************************************************************)
(* Model of app.py: a Streamlit page that authenticates against a hosted   *)
(* backend through one cached client, inserts rows in project_updates,     *)
(* uploads PV documents to the pv-chantier bucket and lists them.          *)
(*                                                                         *)
(* Python strings are sequences of one-character strings; None and the     *)
(* empty string are both the empty sequence (the code tests them with      *)
(* "or" / "if x", which treats them alike).                                *)
(***************************************************************************)
EXTENDS Integers, Sequences, FiniteSets, TLC

None == << >>

(***************************************************************************)
(* Bounds of the model.                                                    *)
(***************************************************************************)
MaxRows == 1        \* rows the table project_updates can take
MaxDay == 2         \* UTC days the run spans
MaxBatch == 2       \* files of one direct upload_pv_files call (SpecUpload)

(***************************************************************************)
(* Constants of the program.                                               *)
(***************************************************************************)
MAX_UPLOAD_MB == 200
BytesPerMB == 1048576
ALLOWED_EXT == { <<".", "p", "d", "f">>, <<".", "d", "o", "c", "x">>, <<".", "d", "o", "c">> }
DEFAULT_STATE ==
    [ user |-> None,
      selected_project_id |-> None,
      form_progress_travaux |-> 0,
      form_progress_paiements |-> 0,
      form_commentaires |-> None,
      form_date_pv |-> None ]

(***************************************************************************)
(* String helpers (str.replace, str.rfind, str.lower, os.path.splitext).   *)
(***************************************************************************)
Replace(s, old, new) == [i \in 1..Len(s) |-> IF s[i] = old THEN new ELSE s[i]]

\* 1-based str.rfind; 0 when absent (Python's -1).
RECURSIVE RFindFrom(_, _, _)
RFindFrom(s, c, i) ==
    IF i = 0 THEN 0
    ELSE IF s[i] = c THEN i
    ELSE RFindFrom(s, c, i - 1)

RFind(s, c) == RFindFrom(s, c, Len(s))

LowerChar(c) ==
    CASE c = "P" -> "p"
      [] c = "D" -> "d"
      [] c = "F" -> "f"
      [] c = "O" -> "o"
      [] c = "C" -> "c"
      [] c = "X" -> "x"
      [] OTHER -> c

Lower(s) == [i \in 1..Len(s) |-> LowerChar(s[i])]

\* genericpath._splitext with sep "/" and extsep ".": the extension starts at
\* the last dot, unless only dots precede it in the last path component.
SplitExt(p) ==
    LET sepIndex == RFind(p, "/")
        dotIndex == RFind(p, ".")
    IN IF dotIndex > sepIndex /\ \E i \in (sepIndex+1)..(dotIndex-1) : p[i] # "."
       THEN SubSeq(p, dotIndex, Len(p))
       ELSE << >>

\* Variant: the slash is not replaced.
SafeFilenameKeepSlash(name) ==
    Replace(Replace(Replace(Replace(Replace(name, "\\", "_"), ":", "_"), "?", "_"), "#", "_"), "%", "_")

_safe_filename(name) ==
    Replace(Replace(Replace(Replace(Replace(Replace(name, "/", "_"), "\\", "_"), ":", "_"), "?", "_"), "#", "_"), "%", "_")

(***************************************************************************)
(* The storage bucket pv-chantier: a map from object key to metadata.      *)
(* store.upload with upsert=True creates or replaces the object at path;   *)
(* store.list(path) returns the entries directly under path + "/": a       *)
(* file entry carries an id and its updated_at, a folder entry has none.   *)
(***************************************************************************)
Join3(a, b, c) == a \o <<"/">> \o b \o <<"/">> \o c

RECURSIVE Segments(_)
Segments(p) ==
    LET i == RFind(p, "/")
    IN IF i = 0 THEN <<p>>
       ELSE Append(Segments(SubSeq(p, 1, i-1)), SubSeq(p, i+1, Len(p)))

IsPrefix(a, b) == Len(a) <= Len(b) /\ SubSeq(b, 1, Len(a)) = a

StoreUpload(store, path, t) ==
    [k \in DOMAIN store \cup {path} |-> IF k = path THEN [updated_at |-> t] ELSE store[k]]

RECURSIVE SetToSeq(_)
SetToSeq(S) ==
    IF S = {} THEN << >>
    ELSE LET x == CHOOSE y \in S : TRUE IN <<x>> \o SetToSeq(S \ {x})

StoreList(store, path) ==
    LET pre == path \o <<"/">>
        under == {k \in DOMAIN store : IsPrefix(pre, k)}
        entry(k) ==
            LET rest == SubSeq(k, Len(pre) + 1, Len(k))
                segs == Segments(rest)
            IN IF Len(segs) = 1
               THEN [name |-> segs[1], id |-> k, updated_at |-> store[k].updated_at]
               ELSE [name |-> segs[1], id |-> None, updated_at |-> 0]
    IN SetToSeq({entry(k) : k \in under})

(***************************************************************************)
(* upload_pv_files (lines 117-152).  files is a sequence of                *)
(* [name, size]; user is the user the client's get_user returns (None when *)
(* it returns nothing); upRaises is the set of file indexes whose          *)
(* store.upload raises, guRaisesAt the index at which get_user raises      *)
(* (0: never).  The result carries the new bucket, the count returned,     *)
(* the warnings, the indexes passed to store.upload in call order, and     *)
(* whether an exception left the function.                                 *)
(***************************************************************************)
NoUser == <<"n", "o", "u", "s", "e", "r">>
DefaultPvName == <<"p", "v", ".", "p", "d", "f">>

FileKey(project_id, today_folder, uid, name) ==
    Join3(project_id, today_folder, uid \o <<"_">> \o name)

ExtAllowed(name) == Lower(SplitExt(name)) \in ALLOWED_EXT

SizeTooBig(size) == size > MAX_UPLOAD_MB * BytesPerMB

RECURSIVE UploadLoop(_, _, _, _, _, _, _, _)
UploadLoop(acc, i, user, project_id, today_folder, files, upRaises, guRaisesAt) ==
    IF i > Len(files) THEN acc
    ELSE
      LET f == files[i]
          name == _safe_filename(IF f.name = None THEN DefaultPvName ELSE f.name)
          next(a) == UploadLoop(a, i+1, user, project_id, today_folder, files, upRaises, guRaisesAt)
      IN IF ~ExtAllowed(name)
         THEN next([acc EXCEPT !.warnings = Append(@, <<"ext", i>>)])
         ELSE IF SizeTooBig(f.size)
         THEN next([acc EXCEPT !.warnings = Append(@, <<"size", i>>)])
         ELSE IF guRaisesAt = i
         THEN [acc EXCEPT !.raised = TRUE]
         ELSE
           LET uid == IF user # None THEN user ELSE NoUser
               path == FileKey(project_id, today_folder, uid, name)
           IN IF i \in upRaises
              THEN next([acc EXCEPT !.warnings = Append(@, <<"upload", i>>),
                                    !.calls = Append(@, i)])
              ELSE next([acc EXCEPT !.store = StoreUpload(@, path, acc.clock + 1),
                                    !.clock = @ + 1,
                                    !.ok_count = @ + 1,
                                    !.calls = Append(@, i),
                                    !.stored = Append(@, <<i, path>>)])

upload_pv_files(store, now, user, project_id, today_folder, files, upRaises, guRaisesAt) ==
    UploadLoop([store |-> store, clock |-> now, ok_count |-> 0, warnings |-> << >>,
                calls |-> << >>, stored |-> << >>, raised |-> FALSE],
               1, user, project_id, today_folder, files, upRaises, guRaisesAt)

(***************************************************************************)
(* list_signed_pv (lines 154-206).  listRaises: the first-level listing    *)
(* raises; folderRaises: the folders whose listing raises; signRaises:     *)
(* the object paths whose create_signed_url raises.  A signed URL is       *)
(* modelled by the path it signs, the empty string by None.                *)
(***************************************************************************)
InsertDesc(sorted, x) ==
    LET k == Cardinality({j \in 1..Len(sorted) : sorted[j].uploaded_at >= x.uploaded_at})
    IN SubSeq(sorted, 1, k) \o <<x>> \o SubSeq(sorted, k+1, Len(sorted))

RECURSIVE SortDesc(_)
SortDesc(s) ==
    IF s = << >> THEN << >>
    ELSE InsertDesc(SortDesc(SubSeq(s, 1, Len(s)-1)), s[Len(s)])

SortByUploadedAt(s) == SortDesc(s)

RECURSIVE FolderItems(_, _, _, _, _)
FolderItems(files, project_id, folder, now, signRaises) ==
    IF files = << >> THEN << >>
    ELSE
      LET item == Head(files)
          rest == FolderItems(Tail(files), project_id, folder, now, signRaises)
          obj_path == Join3(project_id, folder, item.name)
      IN IF item.name = None THEN rest
         ELSE << [file_name |-> item.name,
                  url |-> IF obj_path \in signRaises THEN None ELSE obj_path,
                  uploaded_at |-> IF item.updated_at # 0 THEN item.updated_at ELSE now] >> \o rest

RECURSIVE WalkDays(_, _, _, _, _, _)
WalkDays(days, store, project_id, now, folderRaises, signRaises) ==
    IF days = << >> THEN << >>
    ELSE
      LET d == Head(days)
          rest == WalkDays(Tail(days), store, project_id, now, folderRaises, signRaises)
      IN IF d.id # None THEN rest
         ELSE IF d.name = None THEN rest
         ELSE IF d.name \in folderRaises THEN rest
         ELSE FolderItems(StoreList(store, project_id \o <<"/">> \o d.name),
                          project_id, d.name, now, signRaises) \o rest

list_signed_pv(store, project_id, now, listRaises, folderRaises, signRaises) ==
    IF listRaises
    THEN [out |-> << >>, error |-> TRUE]
    ELSE [out |-> SortByUploadedAt(WalkDays(StoreList(store, project_id), store, project_id,
                                            now, folderRaises, signRaises)),
          error |-> FALSE]

(***************************************************************************)
(* The world the page runs in.                                             *)
(***************************************************************************)
Sessions == {"A", "B"}                       \* browser sessions of the one server process
Users == { <<"u">>, <<"v">> }                \* ids of the accounts of the auth provider
Projects ==                                  \* the projects table, ordered by name
    << [id |-> <<"p">>, name |-> <<"N", "1">>],
       [id |-> <<"q">>, name |-> <<"N", "2">>] >>

Pad2(n) == IF n < 10 THEN <<"0", ToString(n)>> ELSE <<ToString(n)>>
\* datetime.utcnow().strftime("%Y%m%d") on day n of the run
DayFolder(n) == <<"2", "0", "2", "6", "0", "1">> \o Pad2(n)
\* date.isoformat()
IsoFormat(d) == <<ToString(d[1]), "-">> \o Pad2(d[2]) \o <<"-">> \o Pad2(d[3])

\* What the user typed in the form: the two percentages, the comment, the PV date.
FormInputs ==
    { [prg_t |-> 50, prg_p |-> 25, commentaires |-> <<"o", "k">>, pv_date |-> <<2026, 1, 5>>],
      [prg_t |-> 100, prg_p |-> 0, commentaires |-> None, pv_date |-> None] }

\* The attachments of a submission in the application runs: none, a PDF, an
\* executable followed by a PDF, twice the same PDF.
PdfFile == [name |-> <<"r", ".", "p", "d", "f">>, size |-> 1024]
ExeFile == [name |-> <<"x", ".", "e", "x", "e">>, size |-> 1024]
AppFileLists == { << >>, <<PdfFile>>, <<ExeFile, PdfFile>>, <<PdfFile, PdfFile>> }

SeqsUpTo(S, n) == UNION { [1..k -> S] : k \in 0..n }

VARIABLES
    sbUser,     \* the user of the session held by the cached client sb (None: signed out)
    ss,         \* st.session_state of each browser session
    rerun,      \* the sessions whose script asked for a rerun (st.rerun)
    rows,       \* table project_updates, in insertion order
    storage,    \* bucket pv-chantier: object key -> metadata
    clock,      \* the storage service's clock (one tick per stored object)
    today,      \* the UTC day of the run
    last        \* what the last script run (or direct call) did and displayed

vars == <<sbUser, ss, rerun, rows, storage, clock, today, last>>

NoUpload == [ok_count |-> 0, warnings |-> << >>, calls |-> << >>, stored |-> << >>,
             raised |-> FALSE, files |-> << >>, upRaises |-> {}, guRaisesAt |-> 0, done |-> FALSE]
NoList == [out |-> << >>, error |-> FALSE, done |-> FALSE, project_id |-> None,
           folderRaises |-> {}, signRaises |-> {}]
NoRun == [kind |-> "none", session |-> "A", guRaises |-> FALSE, user |-> None, banners |-> {},
          submit |-> FALSE, sel_name |-> None, project_id |-> None, insert |-> "none",
          upload |-> NoUpload, list |-> NoList]

Init ==
    /\ sbUser = None
    /\ ss = [s \in Sessions |-> DEFAULT_STATE]
    /\ rerun = [s \in Sessions |-> FALSE]
    /\ rows = << >>
    /\ storage = << >>
    /\ clock = 0
    /\ today = 1
    /\ last = NoRun

(***************************************************************************)
(* main (lines 422-441): the user the page is rendered for.  get_user      *)
(* raising is treated as no user.                                          *)
(***************************************************************************)
\* Variant: the answer of get_user is dropped.
MainUserNone(guRaises) == None

MainUser(guRaises) == IF guRaises THEN None ELSE sbUser

\* line 432: the form is rendered only for a user; otherwise the auth panel.
\* Variant: the form is rendered whoever asks.
ShowsFormAlways(user) == TRUE

ShowsForm(user) == user # None

(***************************************************************************)
(* auth_panel (lines 262-299), reached only when main found no user.       *)
(***************************************************************************)
AuthIdle(s, run) ==
    /\ rerun' = [rerun EXCEPT ![s] = FALSE]
    /\ last' = [run EXCEPT !.kind = "auth"]
    /\ UNCHANGED <<sbUser, ss, rows, storage, clock, today>>

\* "Connexion": sign_in_with_password, then get_user().user into session_state.
SignInClick(s, run, accounts) ==
    \E res \in accounts \cup {None}, gu2Raises \in BOOLEAN :
        /\ sbUser' = IF res # None THEN res ELSE sbUser
        /\ IF res # None /\ ~gu2Raises
           THEN /\ ss' = [ss EXCEPT ![s].user = res]
                /\ rerun' = [rerun EXCEPT ![s] = TRUE]
                /\ last' = [run EXCEPT !.kind = "signin", !.banners = {"connecte"}]
           ELSE /\ ss' = ss
                /\ rerun' = [rerun EXCEPT ![s] = FALSE]
                /\ last' = [run EXCEPT !.kind = "signin", !.banners = {"echec_connexion"}]
        /\ UNCHANGED <<rows, storage, clock, today>>

\* "Se déconnecter": sign_out (an exception is swallowed), then the session
\* fields user and selected_project_id are cleared and the script reruns.
SignOutClick(s, run) ==
    \E cleared \in BOOLEAN :
        /\ sbUser' = IF cleared THEN None ELSE sbUser
        /\ ss' = [ss EXCEPT ![s].user = None, ![s].selected_project_id = None]
        /\ rerun' = [rerun EXCEPT ![s] = TRUE]
        /\ last' = [run EXCEPT !.kind = "signout"]
        /\ UNCHANGED <<rows, storage, clock, today>>

\* "Créer mon compte": sign_up; only a banner changes.
SignUpClick(s, run) ==
    \E ok \in BOOLEAN :
        /\ rerun' = [rerun EXCEPT ![s] = FALSE]
        /\ last' = [run EXCEPT !.kind = "signup",
                               !.banners = IF ok THEN {"compte_cree"} ELSE {"echec_creation"}]
        /\ UNCHANGED <<sbUser, ss, rows, storage, clock, today>>

(***************************************************************************)
(* insert_project_update (lines 82-105).  outcome is what the table        *)
(* service does: "ok" (row stored, id returned), "raise" (exception, no    *)
(* row), "noid" (no exception, no id in the answer, no row), "noid_row"    *)
(* (the row is stored but the answer carries no id).                       *)
(***************************************************************************)
InsertOutcomes == {"ok", "raise", "noid", "noid_row"}

Payload(project_id, progress_travaux, progress_paiements, commentaires, pv_date) ==
    LET base == [project_id |-> project_id,
                 progress_travaux |-> progress_travaux,
                 progress_paiements |-> progress_paiements,
                 commentaires |-> commentaires]
    IN IF pv_date # None THEN base @@ [pv_chantier |-> IsoFormat(pv_date)] ELSE base

\* Variant: the row is sent twice.
InsertTwice(table, project_id, progress_travaux, progress_paiements, commentaires, pv_date, outcome) ==
    LET payload == Payload(project_id, progress_travaux, progress_paiements, commentaires, pv_date)
    IN [table |-> IF outcome \in {"ok", "noid_row"} THEN Append(Append(table, payload), payload)
                  ELSE table,
        rec_id |-> IF outcome = "ok" THEN Len(table) + 1 ELSE 0,
        banners |-> IF outcome = "raise" THEN {"err_insert"} ELSE {}]

\* Variant: an id is returned whatever the service answered.
InsertIdAlways(table, project_id, progress_travaux, progress_paiements, commentaires, pv_date, outcome) ==
    LET payload == Payload(project_id, progress_travaux, progress_paiements, commentaires, pv_date)
    IN [table |-> IF outcome \in {"ok", "noid_row"} THEN Append(table, payload) ELSE table,
        rec_id |-> Len(table) + 1,
        banners |-> IF outcome = "raise" THEN {"err_insert"} ELSE {}]

insert_project_update(table, project_id, progress_travaux, progress_paiements, commentaires, pv_date, outcome) ==
    LET payload == Payload(project_id, progress_travaux, progress_paiements, commentaires, pv_date)
    IN [table |-> IF outcome \in {"ok", "noid_row"} THEN Append(table, payload) ELSE table,
        rec_id |-> IF outcome = "ok" THEN Len(table) + 1 ELSE 0,
        banners |-> IF outcome = "raise" THEN {"err_insert"} ELSE {}]

(***************************************************************************)
(* list_projects (lines 73-80): the rows, or [] with a banner on error.    *)
(***************************************************************************)
list_projects(table, raises) ==
    IF raises THEN [data |-> << >>, banners |-> {"err_projects"}]
    ELSE [data |-> table, banners |-> {}]

(***************************************************************************)
(* form_panel (lines 304-417).                                             *)
(***************************************************************************)
\* line 308: {p["name"]: p["id"]}, a later project of the same name wins.
Options(projects) ==
    [n \in {projects[i].name : i \in 1..Len(projects)} |->
        projects[CHOOSE i \in 1..Len(projects) :
                    /\ projects[i].name = n
                    /\ \A j \in (i+1)..Len(projects) : projects[j].name # n].id]

\* lines 330-336: a change of project stores the id and resets the saisie.
\* Variant: the id is stored and the saisie kept.
SelectNoReset(state, project_id) ==
    IF project_id # state.selected_project_id
    THEN [state EXCEPT !.selected_project_id = project_id]
    ELSE state

SelectProject(state, project_id) ==
    IF project_id # state.selected_project_id
    THEN [state EXCEPT !.selected_project_id = project_id,
                       !.form_progress_travaux = DEFAULT_STATE.form_progress_travaux,
                       !.form_progress_paiements = DEFAULT_STATE.form_progress_paiements,
                       !.form_commentaires = DEFAULT_STATE.form_commentaires,
                       !.form_date_pv = DEFAULT_STATE.form_date_pv]
    ELSE state

\* lines 405-409
RememberForm(state, w) ==
    [state EXCEPT !.form_progress_travaux = w.prg_t,
                  !.form_progress_paiements = w.prg_p,
                  !.form_commentaires = w.commentaires,
                  !.form_date_pv = w.pv_date]

\* lines 415-417: the history of the project, as displayed
History(s, store, project_id, now, env) ==
    [done |-> TRUE, project_id |-> project_id,
     folderRaises |-> env.folderRaises, signRaises |-> env.signRaises] @@
    list_signed_pv(store, project_id, now, env.listRaises, env.folderRaises, env.signRaises)

UploadInfo(up, files, upRaises, guRaisesAt) ==
    [ok_count |-> up.ok_count, warnings |-> up.warnings, calls |-> up.calls,
     stored |-> up.stored, raised |-> up.raised, files |-> files, upRaises |-> upRaises,
     guRaisesAt |-> guRaisesAt, done |-> TRUE]

\* What the storage service may do to a listing of project_id's history: the
\* first listing raises, or at most one folder listing and at most one
\* create_signed_url raise, among the folders and objects the walk asks for.
ListEnvs(store, project_id) ==
    LET asked == {k \in DOMAIN store : IsPrefix(project_id \o <<"/">>, k)}
    IN { [listRaises |-> TRUE, folderRaises |-> {}, signRaises |-> {}] } \cup
       { [listRaises |-> FALSE, folderRaises |-> fr, signRaises |-> sr] :
           fr \in {{}} \cup { {Segments(k)[2]} : k \in asked },
           sr \in {{}} \cup { {k} : k \in asked } }

\* What the storage service does to the history listing in the application runs.
AppListEnvs ==
    { [listRaises |-> lr, folderRaises |-> {}, signRaises |-> {}] : lr \in BOOLEAN }

form_panel(s, run0, lp, sel_name, submit, w, files, outcome) ==
    LET projects == lp.data
        options == Options(projects)
        project_id == options[sel_name]
        st1 == SelectProject(ss[s], project_id)
        run == [run0 EXCEPT !.kind = "form", !.submit = submit, !.banners = lp.banners,
                            !.sel_name = IF projects = << >> THEN None ELSE sel_name]
    IN IF projects = << >>
       THEN /\ last' = [run EXCEPT !.banners = @ \cup {"info_noproj"}]
            /\ rerun' = [rerun EXCEPT ![s] = FALSE]
            /\ UNCHANGED <<sbUser, ss, rows, storage, clock, today>>
       ELSE IF ~submit
       THEN /\ ss' = [ss EXCEPT ![s] = st1]
            /\ \E env \in AppListEnvs :
                 last' = [run EXCEPT !.project_id = project_id,
                                     !.list = History(s, storage, project_id, clock + 1, env)]
            /\ rerun' = [rerun EXCEPT ![s] = FALSE]
            /\ UNCHANGED <<sbUser, rows, storage, clock, today>>
       ELSE
         LET ins == insert_project_update(rows, project_id, w.prg_t, w.prg_p,
                                          w.commentaires, w.pv_date, outcome)
         IN /\ rows' = ins.table
            /\ IF ins.rec_id # 0
               THEN \E upRaises \in SUBSET (1..Len(files)), guRaisesAt \in 0..Len(files) :
                      \E up \in {upload_pv_files(storage, clock, sbUser, project_id,
                                                DayFolder(today), files, upRaises, guRaisesAt)} :
                         /\ storage' = up.store
                         /\ clock' = up.clock
                         /\ IF up.raised
                            THEN \* the exception of get_user leaves form_panel and main
                                 /\ ss' = [ss EXCEPT ![s] = st1]
                                 /\ rerun' = [rerun EXCEPT ![s] = FALSE]
                                 /\ last' = [run EXCEPT !.project_id = project_id,
                                                        !.insert = outcome,
                                                        !.upload = UploadInfo(up, files, upRaises, guRaisesAt),
                                                        !.banners = @ \cup {"exception"}]
                            ELSE /\ ss' = [ss EXCEPT ![s] = RememberForm(st1, w)]
                                 /\ rerun' = [rerun EXCEPT ![s] = TRUE]
                                 /\ last' = [run EXCEPT !.project_id = project_id,
                                                        !.insert = outcome,
                                                        !.upload = UploadInfo(up, files, upRaises, guRaisesAt),
                                                        !.banners = @ \cup
                                                           (IF up.ok_count # 0 THEN {"saved_files"}
                                                            ELSE {"saved"})]
               ELSE /\ ss' = [ss EXCEPT ![s] = st1]
                    /\ rerun' = [rerun EXCEPT ![s] = FALSE]
                    /\ \E env \in AppListEnvs :
                         last' = [run EXCEPT !.project_id = project_id, !.insert = outcome,
                                             !.banners = @ \cup ins.banners \cup {"err_echec"},
                                             !.list = History(s, storage, project_id, clock + 1, env)]
                    /\ UNCHANGED <<storage, clock>>
            /\ UNCHANGED <<sbUser, today>>

(***************************************************************************)
(* One run of the script per interaction (main, lines 422-441).            *)
(***************************************************************************)
NoForm == CHOOSE w \in FormInputs : TRUE

\* lines 423-430: the run starts by asking the client for the user.
MainRun(s, guRaises) ==
    [NoRun EXCEPT !.session = s, !.guRaises = guRaises, !.user = MainUser(guRaises)]

\* A run with no button pressed: the auth panel or the form, as main decides.
Idle(s, table) ==
    \E guRaises \in BOOLEAN :
        LET run == MainRun(s, guRaises)
        IN IF ~ShowsForm(run.user)
           THEN AuthIdle(s, run)
           ELSE \E lpRaises \in BOOLEAN, sel_name \in DOMAIN Options(table) :
                  form_panel(s, run, list_projects(table, lpRaises), sel_name, FALSE,
                             NoForm, << >>, "ok")

View(s, table) == ~rerun[s] /\ Idle(s, table)

\* The run that st.rerun / st.experimental_rerun asked for.
Rerun(s, table) == rerun[s] /\ Idle(s, table)

SignIn(s, accounts) ==
    /\ ~rerun[s]
    /\ \E guRaises \in BOOLEAN :
         LET run == MainRun(s, guRaises)
         IN ~ShowsForm(run.user) /\ SignInClick(s, run, accounts)

SignOut(s) ==
    /\ ~rerun[s]
    /\ \E guRaises \in BOOLEAN :
         LET run == MainRun(s, guRaises)
         IN ~ShowsForm(run.user) /\ SignOutClick(s, run)

SignUp(s) ==
    /\ ~rerun[s]
    /\ \E guRaises \in BOOLEAN :
         LET run == MainRun(s, guRaises)
         IN ~ShowsForm(run.user) /\ SignUpClick(s, run)

\* "Enregistrer la mise à jour" pressed in the form, with one of the given
\* form contents and one of the given lists of attached files.
Submit(s, table, inputs, fileLists) ==
    /\ ~rerun[s]
    /\ \E guRaises \in BOOLEAN :
         LET run == MainRun(s, guRaises)
         IN /\ ShowsForm(run.user)
            /\ \E sel_name \in DOMAIN Options(table), w \in inputs,
                  files \in fileLists, outcome \in InsertOutcomes :
                 /\ outcome \in {"ok", "noid_row"} => Len(rows) < MaxRows
                 /\ form_panel(s, run, list_projects(table, FALSE), sel_name, TRUE, w, files, outcome)

(***************************************************************************)
(* Spec: two browser sessions on the one server process, two accounts,     *)
(* one project; the submissions carry no attachment.                       *)
(***************************************************************************)
OneProject == SubSeq(Projects, 1, 1)

Next ==
    \/ \E s \in Sessions : View(s, OneProject)
    \/ \E s \in Sessions : Rerun(s, OneProject)
    \/ \E s \in Sessions : SignIn(s, Users)
    \/ \E s \in Sessions : SignOut(s)
    \/ \E s \in Sessions : SignUp(s)
    \/ \E s \in Sessions : Submit(s, OneProject, {NoForm}, { << >> })

Spec == Init /\ [][Next]_vars

(***************************************************************************)
(* SpecForm: one browser session, one account, every form content and      *)
(* every list of attachments of AppFileLists.                              *)
(***************************************************************************)
OneUser == { <<"u">> }

NextForm ==
    \/ View("A", Projects)
    \/ Rerun("A", Projects)
    \/ SignIn("A", OneUser)
    \/ SignOut("A")
    \/ SignUp("A")
    \/ Submit("A", Projects, FormInputs, AppFileLists)

SpecForm == Init /\ [][NextForm]_vars

(***************************************************************************)
(* SpecUpload: one call of upload_pv_files, on any day of the run, with     *)
(* every list of up to MaxBatch files of BatchFiles.                       *)
(***************************************************************************)
MaxBytes == MAX_UPLOAD_MB * BytesPerMB

BatchFiles ==
    { [name |-> <<"r", ".", "p", "d", "f">>, size |-> 1024],
      [name |-> <<"R", ".", "P", "D", "F">>, size |-> 1024],
      [name |-> <<"a", "/", "b", ".", "d", "o", "c">>, size |-> 1024],
      [name |-> <<"x", ".", "e", "x", "e">>, size |-> 1024],
      [name |-> <<".", "p", "d", "f">>, size |-> 1024],
      [name |-> <<"n", ".", "d", "o", "c", "x">>, size |-> 1024],
      [name |-> None, size |-> 0],
      [name |-> <<"b", "i", "g", ".", "p", "d", "f">>, size |-> MaxBytes + 1],
      [name |-> <<"m", "a", "x", ".", "p", "d", "f">>, size |-> MaxBytes] }

ProjectIds == {Projects[i].id : i \in 1..Len(Projects)}

CallUpload(users, fileLists) ==
    \E user \in users, project_id \in ProjectIds, files \in fileLists :
      \E upRaises \in SUBSET (1..Len(files)), guRaisesAt \in 0..Len(files) :
        \E up \in {upload_pv_files(storage, clock, user, project_id, DayFolder(today),
                                    files, upRaises, guRaisesAt)} :
           /\ storage' = up.store
           /\ clock' = up.clock
           /\ last' = [NoRun EXCEPT !.kind = "upload", !.user = user, !.project_id = project_id,
                                    !.upload = UploadInfo(up, files, upRaises, guRaisesAt)]
           /\ UNCHANGED <<sbUser, ss, rerun, rows, today>>

UploadBatch ==
    /\ last.kind = "none"
    /\ CallUpload(Users, SeqsUpTo(BatchFiles, MaxBatch))

\* Midnight UTC passes.
NextDay ==
    /\ today < MaxDay
    /\ today' = today + 1
    /\ UNCHANGED <<sbUser, ss, rerun, rows, storage, clock, last>>

NextUpload == UploadBatch \/ NextDay

SpecUpload == Init /\ [][NextUpload]_vars

(***************************************************************************)
(* SpecStore: files uploaded one at a time accumulate in the bucket over   *)
(* several days and projects, and list_signed_pv is called on it with      *)
(* every failure of the storage service.                                   *)
(***************************************************************************)
MaxStored == 3      \* objects the bucket can take

StoreFiles ==
    { [name |-> <<"r", ".", "p", "d", "f">>, size |-> 1024],
      [name |-> <<"a", "/", "b", ".", "d", "o", "c">>, size |-> 1024] }

UploadMore ==
    /\ clock < MaxStored
    /\ CallUpload(OneUser, { <<f>> : f \in StoreFiles })

CallList ==
    \E project_id \in ProjectIds :
      \E env \in ListEnvs(storage, project_id) :
        /\ last' = [NoRun EXCEPT !.kind = "list", !.project_id = project_id,
                                 !.list = History("A", storage, project_id, clock + 1, env)]
        /\ UNCHANGED <<sbUser, ss, rerun, rows, storage, clock, today>>

NextStore == UploadMore \/ CallList \/ NextDay

SpecStore == Init /\ [][NextStore]_vars

(***************************************************************************)
(*                              PROPERTIES                                 *)
(***************************************************************************)
Range(f) == {f[i] : i \in DOMAIN f}
U == last.upload
L == last.list

(***************************************************************************)
(* C4 (SpecUpload).  As claimed: upload_pv_files stores a file only if the *)
(* extension of its sanitized, lower-cased name is .pdf, .docx or .doc and *)
(* its size is at most 200 MB; a file failing either check is skipped with *)
(* a warning, the other files are still processed (each passed to the      *)
(* storage once), and the count returned is the number of files stored,    *)
(* that is the number of objects the call left in the bucket.              *)
(* C4_Storable lists, by hand, the files of BatchFiles that pass.          *)
(***************************************************************************)
C4_Storable ==
    { [name |-> <<"r", ".", "p", "d", "f">>, size |-> 1024],
      [name |-> <<"R", ".", "P", "D", "F">>, size |-> 1024],
      [name |-> <<"a", "/", "b", ".", "d", "o", "c">>, size |-> 1024],
      [name |-> <<"n", ".", "d", "o", "c", "x">>, size |-> 1024],
      [name |-> None, size |-> 0],
      [name |-> <<"m", "a", "x", ".", "p", "d", "f">>, size |-> 200 * 1024 * 1024] }

C4_Skipped == {w[2] : w \in {x \in Range(U.warnings) : x[1] \in {"ext", "size"}}}
C4_StoredIdx == {x[1] : x \in Range(U.stored)}
C4_StoredKeys == {x[2] : x \in Range(U.stored)}

C4_Original ==
    (last.kind = "upload" /\ U.done) =>
        /\ \A i \in C4_StoredIdx : U.files[i] \in C4_Storable
        /\ \A i \in 1..Len(U.files) :
              IF U.files[i] \in C4_Storable
              THEN i \in Range(U.calls) /\ i \notin C4_Skipped
              ELSE i \in C4_Skipped /\ i \notin Range(U.calls)
        /\ ~U.raised
        /\ U.ok_count = Cardinality(C4_StoredKeys)
        /\ C4_StoredKeys \subseteq DOMAIN storage

\* What does hold of the validation: up to the file at which get_user raised
\* (all the files when it did not), a file is passed to the storage exactly
\* when it passes both checks, a file failing one is skipped with a warning,
\* and a count that is returned is the number of successful store.upload calls.
C4_UploadValidates ==
    (last.kind = "upload" /\ U.done) =>
        LET n == Len(U.files)
            reach == IF U.raised THEN U.guRaisesAt ELSE n
        IN /\ \A i \in C4_StoredIdx : U.files[i] \in C4_Storable
           /\ \A i \in 1..reach : U.files[i] \notin C4_Storable =>
                  i \in C4_Skipped /\ i \notin Range(U.calls)
           /\ \A i \in 1..reach : (U.files[i] \in C4_Storable /\ ~(U.raised /\ i = reach)) =>
                  /\ i \in Range(U.calls)
                  /\ i \notin C4_Skipped
                  /\ (i \in C4_StoredIdx <=> i \notin U.upRaises)
           /\ ~U.raised => U.ok_count = Len(U.stored)
           /\ Cardinality(C4_StoredIdx) = Len(U.stored)
           /\ C4_StoredKeys \subseteq DOMAIN storage

(***************************************************************************)
(* C8 (SpecStore).  As claimed: every object stored for project P is       *)
(* returned by list_signed_pv(P) exactly once, nothing of another project  *)
(* is returned, an object whose signed URL fails is listed with an empty   *)
(* url, and the result is in descending order of uploaded_at.              *)
(***************************************************************************)
KeysOf(project_id) == {k \in DOMAIN storage : IsPrefix(project_id \o <<"/">>, k)}

C8_Matches(e, k, project_id) ==
    /\ Join3(project_id, Segments(k)[2], e.file_name) = k
    /\ e.uploaded_at = storage[k].updated_at
    /\ e.url = IF k \in L.signRaises THEN None ELSE k

C8_Times(k, project_id) ==
    Cardinality({j \in 1..Len(L.out) : C8_Matches(L.out[j], k, project_id)})

C8_Sound ==
    /\ \A j \in 1..Len(L.out) : \E k \in KeysOf(L.project_id) : C8_Matches(L.out[j], k, L.project_id)
    /\ \A i, j \in 1..Len(L.out) : i < j => L.out[i].uploaded_at >= L.out[j].uploaded_at

C8_Original ==
    (last.kind = "list" /\ L.done) =>
        /\ \A k \in KeysOf(L.project_id) : C8_Times(k, L.project_id) = 1
        /\ C8_Sound

(***************************************************************************)
(* C8 amended (SpecStore).  When the first-level listing raises the result *)
(* is empty and an error is shown; otherwise every object stored for P is  *)
(* returned exactly once, except those of a day folder whose listing       *)
(* raised, which are left out; nothing of another project is returned, a   *)
(* failed signed URL gives an empty url, and the order is descending.      *)
(***************************************************************************)
C8_Listing ==
    (last.kind = "list" /\ L.done) =>
        /\ L.error => L.out = << >>
        /\ ~L.error =>
             \A k \in KeysOf(L.project_id) :
                C8_Times(k, L.project_id) = IF Segments(k)[2] \in L.folderRaises THEN 0 ELSE 1
        /\ C8_Sound

\* Two objects of P listed, one of them with a failed signed URL, while the
\* bucket also holds an object of another project.
C8_Witness ==
    /\ last.kind = "list" /\ L.done /\ ~L.error
    /\ Len(L.out) = 2
    /\ \E j \in 1..2 : L.out[j].url = None
    /\ \E j \in 1..2 : L.out[j].url # None
    /\ KeysOf(L.project_id) # DOMAIN storage

(***************************************************************************)
(* Helpers of the properties of the application runs.                      *)
(***************************************************************************)
FormFields(st) ==
    <<st.form_progress_travaux, st.form_progress_paiements, st.form_commentaires, st.form_date_pv>>
Defaults4 == <<0, 0, << >>, << >>>>
ProjectNamed(n) == Projects[CHOOSE i \in 1..Len(Projects) : Projects[i].name = n].id
AuthKinds == {"auth", "signin", "signout", "signup"}
Saved(r) == r.banners \cap {"saved", "saved_files"} # {}
\* the session fields hold what the row r was built from
FieldsMatchRow(st, r) ==
    /\ st.form_progress_travaux = r.progress_travaux
    /\ st.form_progress_paiements = r.progress_paiements
    /\ st.form_commentaires = r.commentaires
    /\ IF st.form_date_pv = None THEN "pv_chantier" \notin DOMAIN r
       ELSE "pv_chantier" \in DOMAIN r /\ r.pv_chantier = IsoFormat(st.form_date_pv)

(***************************************************************************)
(* C1 (SpecForm).  A submission whose insert succeeds adds exactly one row *)
(* to project_updates, for the project selected at submit time, and adds   *)
(* between 0 and len(files) storage objects, all under that project; a     *)
(* run without a submit adds no row and no storage object.                 *)
(***************************************************************************)
C1_SubmitAddsOneRow ==
    [][ LET r == last'
        IN /\ (r.kind = "form" /\ r.submit /\ r.insert = "ok") =>
                LET pid == ProjectNamed(r.sel_name)
                    new == DOMAIN storage' \ DOMAIN storage
                IN /\ Len(rows') = Len(rows) + 1
                   /\ SubSeq(rows', 1, Len(rows)) = rows
                   /\ rows'[Len(rows')].project_id = pid
                   /\ DOMAIN storage \subseteq DOMAIN storage'
                   /\ Cardinality(new) <= Len(r.upload.files)
                   /\ \A k \in new : IsPrefix(pid \o <<"/">>, k)
           /\ ~r.submit => (rows' = rows /\ storage' = storage)
      ]_vars

\* A successful submission with two files, of which one is stored.
C1_Witness ==
    /\ last.kind = "form" /\ last.submit /\ last.insert = "ok"
    /\ Len(U.files) = 2 /\ U.ok_count = 1
    /\ Len(rows) >= 1 /\ storage # << >>

(***************************************************************************)
(* C2 (SpecForm).  In a run where the auth client reports no user (get_user    *)
(* returns none or raises) only the auth panel is rendered: no row is      *)
(* inserted, no object is uploaded, and neither list_projects nor          *)
(* form_panel runs.                                                        *)
(***************************************************************************)
C2_NoWriteWithoutUser ==
    [][ (last'.guRaises \/ sbUser = None) =>
            /\ rows' = rows
            /\ storage' = storage
            /\ last'.kind \in AuthKinds
            /\ ~last'.list.done /\ ~last'.upload.done
            /\ last'.banners \cap {"err_projects", "info_noproj"} = {}
      ]_vars

\* get_user raises while the client holds a user and data exists.
C2_Witness ==
    /\ last.kind = "auth" /\ last.guRaises
    /\ sbUser # None
    /\ rows # << >> /\ storage # << >>

(***************************************************************************)
(* C3 (Spec).  As claimed: an action in one browser session never changes  *)
(* whether another session is treated as authenticated, nor the identity   *)
(* its rows and uploads are attributed to.  TreatedAs(b) is the user main  *)
(* renders session b's page for.                                           *)
(***************************************************************************)
TreatedAs(b) == MainUser(FALSE)

C3_SessionsIsolated ==
    [][ \A b \in Sessions \ {last'.session} : TreatedAs(b)' = TreatedAs(b) ]_vars

(***************************************************************************)
(* C5 (SpecForm).  As claimed: no upload overwrites a previously stored        *)
(* object, every stored file having a key of its own.                      *)
(***************************************************************************)
C5_NoOverwrite ==
    [][ /\ \A k \in DOMAIN storage : k \in DOMAIN storage' /\ storage'[k] = storage[k]
        /\ last'.upload.done =>
             Cardinality(DOMAIN storage' \ DOMAIN storage) = last'.upload.ok_count
      ]_vars

(***************************************************************************)
(* C6 (SpecForm).  As claimed: when the insert raises or returns no id, an *)
(* error banner is shown, nothing is uploaded, the submission is not       *)
(* reported as saved, no second insert is made, and the four form fields   *)
(* of the session are left unchanged.                                      *)
(***************************************************************************)
FailedSubmit(r) == r.kind = "form" /\ r.submit /\ r.insert \in {"raise", "noid", "noid_row"}

C6_Failure(r) ==
    /\ "err_echec" \in r.banners
    /\ r.insert = "raise" => "err_insert" \in r.banners
    /\ ~Saved(r)
    /\ ~r.upload.done
    /\ storage' = storage
    /\ Len(rows') <= Len(rows) + 1
    /\ ~rerun'[r.session]

C6_Original ==
    [][ FailedSubmit(last') =>
            /\ C6_Failure(last')
            /\ FormFields(ss'[last'.session]) = FormFields(ss[last'.session])
      ]_vars

(***************************************************************************)
(* C6 amended (SpecForm).  The same, except for the form fields: the       *)
(* failed submission does not write them, so they are unchanged when the   *)
(* selected project is the stored one, and reset to their defaults when    *)
(* the project changed in that run.  Uploads happen only in a run whose    *)
(* insert returned an id.                                                  *)
(***************************************************************************)
C6_FailedInsert ==
    [][ /\ FailedSubmit(last') =>
            LET s == last'.session
            IN /\ C6_Failure(last')
               /\ FormFields(ss'[s]) =
                     IF ProjectNamed(last'.sel_name) = ss[s].selected_project_id
                     THEN FormFields(ss[s]) ELSE Defaults4
        /\ last'.upload.done => last'.insert = "ok"
      ]_vars

\* A failed insert after an earlier successful one, the fields kept.
C6_Witness ==
    /\ last.kind = "form" /\ last.submit /\ last.insert = "raise"
    /\ "err_insert" \in last.banners
    /\ FormFields(ss["A"]) # Defaults4
    /\ Len(rows) >= 1

(***************************************************************************)
(* C7 (SpecForm).  As claimed: in a submission whose insert succeeded each *)
(* accepted file is passed to the storage upload at most once, an upload   *)
(* that raises gives a warning and the other accepted files are still      *)
(* uploaded, the row and the objects already stored stay, and the          *)
(* submission is reported as saved with the form fields written to the     *)
(* session.                                                                *)
(***************************************************************************)
C7_Uploads(r) ==
    LET u == r.upload
    IN /\ \A i, j \in 1..Len(u.calls) : u.calls[i] = u.calls[j] => i = j
       /\ \A i \in Range(u.calls) \cap u.upRaises : <<"upload", i>> \in Range(u.warnings)
       /\ Len(rows') = Len(rows) + 1 /\ SubSeq(rows', 1, Len(rows)) = rows
       /\ DOMAIN storage \subseteq DOMAIN storage'
       /\ \A x \in Range(u.stored) : x[2] \in DOMAIN storage'

C7_Completed(r) ==
    LET u == r.upload
    IN /\ \A i \in 1..Len(u.files) : ExtAllowed(_safe_filename(u.files[i].name)) => i \in Range(u.calls)
       /\ Saved(r)
       /\ FieldsMatchRow(ss'[r.session], rows'[Len(rows')])

UploadRaised(r) == Range(r.upload.calls) \cap r.upload.upRaises # {}

C7_Original ==
    [][ (last'.kind = "form" /\ last'.submit /\ last'.insert = "ok") =>
            /\ C7_Uploads(last')
            /\ UploadRaised(last') => C7_Completed(last')
      ]_vars

\* The part of C7 that holds: when get_user does not raise inside the loop.
C7_WhenGetUserAnswers ==
    [][ (last'.kind = "form" /\ last'.submit /\ last'.insert = "ok") =>
            /\ C7_Uploads(last')
            /\ ~last'.upload.raised => C7_Completed(last')
      ]_vars

(***************************************************************************)
(* C9 (SpecForm).  After a run of form_panel with a non-empty project list *)
(* the session's selected_project_id is the id of the project shown in the *)
(* selector, and that id is the one of the inserted row, of the uploaded   *)
(* objects and of the history listing.  When it differs from the id stored *)
(* before, the four form fields are reset to 0, 0, "" and None; when it    *)
(* does not, they are left as they were (a saved submission then writes    *)
(* the submitted values).                                                  *)
(***************************************************************************)
C9_SelectionAndReset ==
    [][ LET r == last'
            s == r.session
        IN (r.kind = "form" /\ r.sel_name # None) =>
             LET pid == ProjectNamed(r.sel_name)
             IN /\ ss'[s].selected_project_id = pid
                /\ r.project_id = pid
                /\ Len(rows') > Len(rows) => rows'[Len(rows')].project_id = pid
                /\ \A x \in Range(r.upload.stored) : IsPrefix(pid \o <<"/">>, x[2])
                /\ r.list.done => r.list.project_id = pid
                /\ IF Saved(r)
                   THEN FieldsMatchRow(ss'[s], rows'[Len(rows')])
                   ELSE FormFields(ss'[s]) =
                           IF pid # ss[s].selected_project_id THEN Defaults4
                           ELSE FormFields(ss[s])
      ]_vars

\* After a saved submission on the first project the user looks at the
\* second one: the fields are back to their defaults.
C9_Witness ==
    /\ last.kind = "form" /\ ~last.submit
    /\ last.project_id = Projects[2].id
    /\ ss["A"].selected_project_id = Projects[2].id
    /\ FormFields(ss["A"]) = Defaults4
    /\ Len(rows) >= 1 /\ rows[Len(rows)].project_id = Projects[1].id

(***************************************************************************)
(* C10 (Spec).  As claimed: once the client holds an authenticated user,   *)
(* no action of the page calls sign_out or returns it to the               *)
(* unauthenticated state.                                                  *)
(***************************************************************************)
C10_Original ==
    [][ sbUser # None => (sbUser' # None /\ last'.kind # "signout") ]_vars

(***************************************************************************)
(* C10 amended (Spec).  The sign-in, sign-out and sign-up handlers run     *)
(* only in a run where the auth client reports no user (none, or get_user  *)
(* raises); in a run where it reports a user only the form is rendered     *)
(* and neither the client's user nor session_state.user changes.  A        *)
(* client holding a user loses or changes it only through the auth panel   *)
(* of a run in which get_user raised.                                      *)
(***************************************************************************)
C10_AuthOnlyWithoutUser ==
    [][ LET r == last'
            reported == IF r.guRaises THEN None ELSE sbUser
        IN /\ r.kind \in {"signin", "signout", "signup"} => reported = None
           /\ reported # None =>
                /\ r.kind = "form"
                /\ sbUser' = sbUser
                /\ ss'[r.session].user = ss[r.session].user
           /\ (sbUser # None /\ sbUser' # sbUser) =>
                (r.guRaises /\ r.kind \in {"signin", "signout"})
      ]_vars

\* Signed out, through a run whose get_user raised, after rows were saved.
C10_Witness ==
    /\ last.kind = "signout" /\ last.guRaises
    /\ sbUser = None
    /\ Len(rows) > 0

====
